---- MODULE Spec2Model ----
(***************************************************************************)
(* A model of scraper.py: the credential loader, the two fetchers, the two *)
(* normalizers, the joiner and the driver (main).                          *)
(*                                                                         *)
(* Text the code computes on (credential file text, timestamps, column     *)
(* labels) is a sequence of one-character strings, so that split, zfill,   *)
(* slicing, replace, parsing and formatting are computed, not assumed.     *)
(* A file is [exists, data]; a call's outcome is Return(v) or Raise(e).    *)
(***************************************************************************)
EXTENDS Integers, Sequences, FiniteSets, TLC

VARIABLES
    fs,        \* the file system: path -> [exists, data]
    pc,        \* the function about to run, or "done" / "returned" / "propagated"
    api_key,   \* the api_key argument (args.api_key): [none, s]
    jao_df,    \* the DataFrame returned by process_jao_json (df_right of the join)
    pse_df,    \* the DataFrame returned by process_pse_csv (df_left of the join)
    merged,    \* the DataFrame built by join_both
    ret,       \* outcome of the last call: Return(v) or Raise(e)
    log,       \* the lines logged so far: <<[level, msg]>>
    sent,      \* the HTTP requests made so far: <<[url, auth, resp]>>
    calls      \* the functions called so far, in order (main's stages): <<[name, outcome]>>

vars == <<fs, pc, api_key, jao_df, pse_df, merged, ret, log, sent, calls>>

----------------------------------------------------------------------------
(* Bounds of the model *)

MaxKeyLen == 3      \* characters in the credential file
MaxPseRows == 2     \* rows of the grid CSV
MaxDays == 2        \* day records of the auction document
MaxResults == 2     \* result records of one day
MaxRows == 2        \* rows of each table handed to join_both

----------------------------------------------------------------------------
(* Outcomes, files, paths *)

Return(v) == [kind |-> "return", value |-> v]
Raise(e) == [kind |-> "raise", exc |-> e]
RaiseStatus(code) == [kind |-> "raise", exc |-> "RequestException", status |-> code]
NoCall == [kind |-> "none"]

KeyPath == ".JAO_API_KEY"
JaoPath == "downloads/JAO.json"
PsePath == "downloads/PSE.csv"
JaoModPath == "downloads/JAO_modified.csv"
PseModPath == "downloads/PSE_modified.csv"
JoinedPath == "results/JOINED.csv"
Paths == {KeyPath, JaoPath, PsePath, JaoModPath, PseModPath, JoinedPath}

EmptyBytes == [fmt |-> "empty", doc |-> <<>>]
NoFile == [exists |-> FALSE, data |-> EmptyBytes]
File(d) == [exists |-> TRUE, data |-> d]

None == [none |-> TRUE, s |-> <<>>]
Some(s) == [none |-> FALSE, s |-> s]
\* Python truthiness of an Optional[str]: None and "" are falsy
Truthy(a) == ~a.none /\ a.s # <<>>

SetMin(S) == CHOOSE x \in S : \A y \in S : x <= y

----------------------------------------------------------------------------
(* load_api_key *)

IsSpace(c) == c \in {" ", "\n", "\t"}

\* file.readlines(): cut after every "\n"; a last line may lack it
RECURSIVE readlines(_)
readlines(text) ==
    IF text = <<>> THEN <<>>
    ELSE LET nl == {i \in 1..Len(text) : text[i] = "\n"}
             cut == IF nl = {} THEN Len(text) ELSE SetMin(nl)
         IN <<SubSeq(text, 1, cut)>> \o readlines(SubSeq(text, cut + 1, Len(text)))

\* str.split() with no argument: maximal runs of non-whitespace characters
RECURSIVE split_from(_, _, _)
split_from(line, i, cur) ==
    IF i > Len(line) THEN (IF cur = <<>> THEN <<>> ELSE <<cur>>)
    ELSE IF IsSpace(line[i])
         THEN (IF cur = <<>> THEN <<>> ELSE <<cur>>) \o split_from(line, i + 1, <<>>)
         ELSE split_from(line, i + 1, Append(cur, line[i]))

\* Variant: the last token of the line instead of all of them
split_last_only(line) ==
    LET toks == split_from(line, 1, <<>>)
    IN IF Len(toks) > 1 THEN <<toks[Len(toks)]>> ELSE toks

split(line) == split_from(line, 1, <<>>)

load_api_key(file) ==
    IF ~file.exists THEN Raise("FileNotFoundError")
    ELSE LET lines == readlines(file.data.doc)
         IN IF lines = <<>> THEN Raise("IndexError")
            ELSE LET toks == split(lines[1])
                 IN IF toks = <<>> THEN Raise("IndexError") ELSE Return(toks[1])

----------------------------------------------------------------------------
(* download_pse, download_jao *)

HTTP_OK == 200

JaoUrl == "https://api.jao.eu/OWSMP/getauctions"
PseUrl == "https://www.pse.pl/getcsv/-/export/csv/PL_BPKD"

Info(msg) == [level |-> "INFO", msg |-> msg]
Error(msg) == [level |-> "ERROR", msg |-> msg]

\* A response of requests.get: [kind |-> "response", status_code, content], or
\* [kind |-> "error"] when the transport raises (requests' ConnectionError, a
\* RequestException).
Response(code, body) == [kind |-> "response", status_code |-> code, content |-> body]
TransportError == [kind |-> "error"]

\* Variant: the body is written whatever the status
fetch_always_writes(fsys, out_path, resp) ==
    LET opened == [fsys EXCEPT ![out_path] = File(EmptyBytes)]
    IN [log |-> <<Info("Requesting")>>] @@
       IF resp.kind = "error" THEN [fs |-> opened, ret |-> Raise("ConnectionError")]
       ELSE IF resp.status_code = HTTP_OK
            THEN [fs |-> [opened EXCEPT ![out_path] = File(resp.content)],
                  ret |-> Return(out_path)]
            ELSE [fs |-> [opened EXCEPT ![out_path] = File(resp.content)],
                  ret |-> RaiseStatus(resp.status_code)]

\* lines 64-70 and 102-117: open(out_path, "wb") truncates or creates the file
\* before the request is made; the body is written on status 200 only.
fetch_into(fsys, out_path, resp) ==
    LET opened == [fsys EXCEPT ![out_path] = File(EmptyBytes)]
    IN [log |-> <<Info("Requesting")>>] @@
       IF resp.kind = "error" THEN [fs |-> opened, ret |-> Raise("ConnectionError")]
       ELSE IF resp.status_code = HTTP_OK
            THEN [fs |-> [opened EXCEPT ![out_path] = File(resp.content)],
                  ret |-> Return(out_path)]
            ELSE [fs |-> opened, ret |-> RaiseStatus(resp.status_code)]

\* The status a request ended with; 0 when the transport raised
StatusOf(resp) == IF resp.kind = "error" THEN 0 ELSE resp.status_code

download_pse(fsys, out_path, resp) ==
    fetch_into(fsys, out_path, resp)
        @@ [sent |-> <<[url |-> PseUrl, auth |-> None, resp |-> resp]>>]

download_jao(fsys, key_arg, out_path, resp) ==
    LET loaded == IF Truthy(key_arg) THEN Return(key_arg.s) ELSE load_api_key(fsys[KeyPath])
    IN IF loaded.kind = "raise"
       THEN [fs |-> fsys, ret |-> loaded, sent |-> <<>>, log |-> <<>>]
       ELSE fetch_into(fsys, out_path, resp)
                @@ [sent |-> <<[url |-> JaoUrl, auth |-> Some(loaded.value),
                              resp |-> resp]>>]

----------------------------------------------------------------------------
(* Text and date-time helpers *)

DigitChars == <<"0", "1", "2", "3", "4", "5", "6", "7", "8", "9">>
IsDigit(c) == \E i \in 1..10 : DigitChars[i] = c
DigitVal(c) == (CHOOSE i \in 1..10 : DigitChars[i] = c) - 1

\* str(n) for an int n >= 0
RECURSIVE IntToStr(_)
IntToStr(n) == IF n < 10 THEN <<DigitChars[n + 1]>>
               ELSE IntToStr(n \div 10) \o <<DigitChars[(n % 10) + 1]>>

\* int(s) for a string of digits
RECURSIVE StrToInt(_)
StrToInt(s) == IF s = <<>> THEN 0
               ELSE 10 * StrToInt(SubSeq(s, 1, Len(s) - 1)) + DigitVal(s[Len(s)])

AllDigits(s) == \A i \in 1..Len(s) : IsDigit(s[i])

\* s[:n]
Slice(s, n) == SubSeq(s, 1, IF Len(s) < n THEN Len(s) ELSE n)

\* s.zfill(width)
RECURSIVE zfill(_, _)
zfill(s, width) == IF Len(s) >= width THEN s ELSE zfill(<<"0">> \o s, width)

\* s.startswith(prefix)
StartsWith(s, prefix) == Len(s) >= Len(prefix) /\ SubSeq(s, 1, Len(prefix)) = prefix

\* s.replace(old, new): every non-overlapping occurrence, left to right
RECURSIVE Replace(_, _, _)
Replace(s, old, new) ==
    IF Len(s) < Len(old) THEN s
    ELSE IF StartsWith(s, old)
         THEN new \o Replace(SubSeq(s, Len(old) + 1, Len(s)), old, new)
         ELSE <<s[1]>> \o Replace(SubSeq(s, 2, Len(s)), old, new)

\* A parsed date-time value (datetime / pd.Timestamp, no timezone)
Timestamp(Y, m, d, H, M, S) == <<"Timestamp", Y, m, d, H, M, S>>
IsTimestamp(v) == Len(v) = 7 /\ v[1] = "Timestamp"

IsLeap(Y) == (Y % 4 = 0 /\ Y % 100 # 0) \/ Y % 400 = 0
DaysInMonth(Y, m) == IF m = 2 THEN (IF IsLeap(Y) THEN 29 ELSE 28)
                     ELSE IF m \in {4, 6, 9, 11} THEN 30 ELSE 31

\* Whether s reads as 'YYYY-MM-DD HH:MM' naming a real date and time
IsDateTimeText(s) ==
    /\ Len(s) = 16
    /\ s[5] = "-" /\ s[8] = "-" /\ s[11] = " " /\ s[14] = ":"
    /\ AllDigits(SubSeq(s, 1, 4)) /\ AllDigits(SubSeq(s, 6, 7))
    /\ AllDigits(SubSeq(s, 9, 10)) /\ AllDigits(SubSeq(s, 12, 13))
    /\ AllDigits(SubSeq(s, 15, 16))
    /\ StrToInt(SubSeq(s, 6, 7)) \in 1..12
    /\ StrToInt(SubSeq(s, 9, 10)) \in
           1..DaysInMonth(StrToInt(SubSeq(s, 1, 4)), StrToInt(SubSeq(s, 6, 7)))
    /\ StrToInt(SubSeq(s, 12, 13)) \in 0..23
    /\ StrToInt(SubSeq(s, 15, 16)) \in 0..59

\* datetime.strptime(s, "%Y-%m-%d %H:%M") and pd.to_datetime(s) on such a text
ParseDateTime(s) ==
    IF IsDateTimeText(s)
    THEN Return(Timestamp(StrToInt(SubSeq(s, 1, 4)), StrToInt(SubSeq(s, 6, 7)),
                          StrToInt(SubSeq(s, 9, 10)), StrToInt(SubSeq(s, 12, 13)),
                          StrToInt(SubSeq(s, 15, 16)), 0))
    ELSE Raise("ValueError")

----------------------------------------------------------------------------
(* DataFrames: [columns |-> <<label>>, cells |-> <<row>>], a row being the *)
(* tuple of its cells in column order                                       *)

L_datetime == <<"d", "a", "t", "e", "t", "i", "m", "e">>
L_Data == <<"D", "a", "t", "a">>
L_Godzina == <<"G", "o", "d", "z", "i", "n", "a">>
L_index == <<>>

DataFrame(columns, cells) == [columns |-> columns, cells |-> cells]
NoFrame == DataFrame(<<>>, <<>>)

HasColumn(df, c) == \E i \in 1..Len(df.columns) : df.columns[i] = c
ColIndex(df, c) == CHOOSE i \in 1..Len(df.columns) : df.columns[i] = c
Column(df, c) == [r \in 1..Len(df.cells) |-> df.cells[r][ColIndex(df, c)]]

\* df[c] = values: replaces column c, or appends it as the last column
SetColumn(df, c, values) ==
    IF HasColumn(df, c)
    THEN DataFrame(df.columns,
                   [r \in 1..Len(df.cells) |->
                       [df.cells[r] EXCEPT ![ColIndex(df, c)] = values[r]]])
    ELSE DataFrame(Append(df.columns, c),
                   [r \in 1..Len(df.cells) |-> Append(df.cells[r], values[r])])

\* df.to_csv(path): the row index is written as a first column with an empty label
to_csv(df) ==
    [fmt |-> "csv",
     doc |-> DataFrame(<<L_index>> \o df.columns,
                       [r \in 1..Len(df.cells) |-> <<r - 1>> \o df.cells[r]])]

\* filepath.parent.joinpath(filepath.stem + "_modified.csv")
ModifiedPath(filepath) == IF filepath = JaoPath THEN JaoModPath ELSE PseModPath

----------------------------------------------------------------------------
(* process_pse_csv *)

\* pd.read_csv(filepath, encoding="CP1250", sep=";")
read_csv(file) ==
    IF ~file.exists THEN Raise("FileNotFoundError")
    ELSE IF file.data.fmt = "empty" THEN Raise("EmptyDataError")
    ELSE IF file.data.fmt = "csv" THEN Return(file.data.doc)
    ELSE Return(DataFrame(<<file.data.doc>>, <<>>))  \* other text: one odd column

\* line 156: df["Data"] + " " + df["Godzina"].apply(lambda x: str(x).zfill(2)) + ":00"
pse_text(data, godzina) == data \o <<" ">> \o zfill(IntToStr(godzina), 2) \o <<":", "0", "0">>

\* Variant: hour 24 left as it is
pse_rewrite_rollover(s) == s

\* line 158: .str.replace("24:00", "00:00")
pse_rewrite(s) == Replace(s, <<"2", "4", ":", "0", "0">>, <<"0", "0", ":", "0", "0">>)

process_pse_csv(fsys, filepath) ==
    LET read == read_csv(fsys[filepath])
    IN IF read.kind = "raise" THEN [fs |-> fsys, ret |-> read]
       ELSE LET df == read.value
            IN IF ~HasColumn(df, L_Data) \/ ~HasColumn(df, L_Godzina)
               THEN [fs |-> fsys, ret |-> Raise("KeyError")]
               ELSE LET parsed == [r \in 1..Len(df.cells) |->
                                      ParseDateTime(
                                          pse_rewrite(pse_text(Column(df, L_Data)[r],
                                                               Column(df, L_Godzina)[r])))]
                    IN IF \E r \in 1..Len(parsed) : parsed[r].kind = "raise"
                       THEN [fs |-> fsys, ret |-> Raise("ValueError")]
                       ELSE LET out == SetColumn(df, L_datetime,
                                           [r \in 1..Len(parsed) |-> parsed[r].value])
                            IN [fs |-> [fsys EXCEPT ![ModifiedPath(filepath)] =
                                                        File(to_csv(out))],
                                ret |-> Return(out)]

----------------------------------------------------------------------------
(* process_jao_json *)

L_marketPeriodStart == <<"m", "a", "r", "k", "e", "t", "P", "e", "r", "i", "o", "d", "S", "t", "a", "r", "t">>
L_results == <<"r", "e", "s", "u", "l", "t", "s">>
L_productHour == <<"p", "r", "o", "d", "u", "c", "t", "H", "o", "u", "r">>
L_offeredCapacity == <<"o", "f", "f", "e", "r", "e", "d", "C", "a", "p", "a", "c", "i", "t", "y">>

\* A JSON object is a function from its keys (labels) to its values.
HasKey(obj, k) == k \in DOMAIN obj

\* hour["datetime"] = value
SetKey(obj, k, v) == [x \in (DOMAIN obj) \cup {k} |-> IF x = k THEN v ELSE obj[x]]

\* json.load(json_file)
json_load(file) ==
    IF ~file.exists THEN Raise("FileNotFoundError")
    ELSE IF file.data.fmt = "json" THEN Return(file.data.doc)
    ELSE Raise("JSONDecodeError")

\* lines 135-137: strptime(f"{date_str} {hour['productHour'][:5]}", "%Y-%m-%d %H:%M")
jao_text(date_str, productHour) == date_str \o <<" ">> \o Slice(productHour, 5)

\* lines 134-138, for the results of one day from position j on
RECURSIVE flatten_results(_, _, _)
flatten_results(date_str, results, j) ==
    IF j > Len(results) THEN Return(<<>>)
    ELSE IF ~HasKey(results[j], L_productHour) THEN Raise("KeyError")
    ELSE LET parsed == ParseDateTime(jao_text(date_str, results[j][L_productHour]))
         IN IF parsed.kind = "raise" THEN parsed
            ELSE LET rest == flatten_results(date_str, results, j + 1)
                 IN IF rest.kind = "raise" THEN rest
                    ELSE Return(<<SetKey(results[j], L_datetime, parsed.value)>>
                                    \o rest.value)

\* Variant: the results of the last day only
flatten_last_day_only(json_data, i) ==
    IF json_data = <<>> THEN Return(<<>>)
    ELSE LET day == json_data[Len(json_data)]
         IN IF ~HasKey(day, L_marketPeriodStart) \/ ~HasKey(day, L_results)
            THEN Raise("KeyError")
            ELSE flatten_results(Slice(day[L_marketPeriodStart], 10), day[L_results], 1)

\* lines 131-138, for the days from position i on
RECURSIVE flatten(_, _)
flatten(json_data, i) ==
    IF i > Len(json_data) THEN Return(<<>>)
    ELSE IF ~HasKey(json_data[i], L_marketPeriodStart) THEN Raise("KeyError")
    ELSE IF ~HasKey(json_data[i], L_results) THEN Raise("KeyError")
    ELSE LET here == flatten_results(Slice(json_data[i][L_marketPeriodStart], 10),
                                     json_data[i][L_results], 1)
         IN IF here.kind = "raise" THEN here
            ELSE LET rest == flatten(json_data, i + 1)
                 IN IF rest.kind = "raise" THEN rest
                    ELSE Return(here.value \o rest.value)

\* The order in which the keys of a result appear (a dict keeps insertion order:
\* the document's keys, then the added "datetime")
JaoKeyOrder == <<L_productHour, L_offeredCapacity, L_datetime>>
NaN == "NaN"

\* pd.DataFrame(flattened): one column per key that occurs, one row per dict
frame_of(flattened) ==
    LET columns == SelectSeq(JaoKeyOrder,
                       LAMBDA k : \E r \in 1..Len(flattened) : HasKey(flattened[r], k))
    IN DataFrame(columns,
                 [r \in 1..Len(flattened) |->
                     [c \in 1..Len(columns) |->
                         IF HasKey(flattened[r], columns[c])
                         THEN flattened[r][columns[c]] ELSE NaN]])

process_jao_json(fsys, filepath) ==
    LET loaded == json_load(fsys[filepath])
    IN IF loaded.kind = "raise" THEN [fs |-> fsys, ret |-> loaded]
       ELSE LET flattened == flatten(loaded.value, 1)
            IN IF flattened.kind = "raise" THEN [fs |-> fsys, ret |-> flattened]
               ELSE LET df == frame_of(flattened.value)
                    IN [fs |-> [fsys EXCEPT ![ModifiedPath(filepath)] = File(to_csv(df))],
                        ret |-> Return(df)]

----------------------------------------------------------------------------
(* join_both *)

P_Unnamed == <<"U", "n", "n", "a", "m", "e", "d">>
SuffixX == <<"_", "x">>
SuffixY == <<"_", "y">>

FormatDate(t) == zfill(IntToStr(t[2]), 4) \o <<"-">> \o zfill(IntToStr(t[3]), 2)
                     \o <<"-">> \o zfill(IntToStr(t[4]), 2)
FormatTime(t) == zfill(IntToStr(t[5]), 2) \o <<":">> \o zfill(IntToStr(t[6]), 2)
                     \o <<":">> \o zfill(IntToStr(t[7]), 2)

\* A column of parsed date-time values has dtype datetime64; a column of text
\* has dtype object.
IsDatetime64(values) == Len(values) > 0 /\ \A r \in 1..Len(values) : IsTimestamp(values[r])
IsDatesOnly(values) ==
    \A r \in 1..Len(values) : values[r][5] = 0 /\ values[r][6] = 0 /\ values[r][7] = 0

\* lines 177-178: Series.astype(str).  Text stays as it is.  A datetime64 column is
\* formatted by pandas as 'YYYY-MM-DD HH:MM:SS', or as 'YYYY-MM-DD' when every value
\* of the column is at midnight.
astype_str(values) ==
    IF IsDatetime64(values)
    THEN [r \in 1..Len(values) |->
             IF IsDatesOnly(values) THEN FormatDate(values[r])
             ELSE FormatDate(values[r]) \o <<" ">> \o FormatTime(values[r])]
    ELSE values

\* The cells of row, without the one at position k
RowWithout(row, k) == SubSeq(row, 1, k - 1) \o SubSeq(row, k + 1, Len(row))

\* The rows of right whose key equals key, from position j on, each glued to lrow
RECURSIVE match_right(_, _, _, _, _)
match_right(lrow, key, right, rk, j) ==
    IF j > Len(right.cells) THEN <<>>
    ELSE (IF right.cells[j][rk] = key
          THEN <<lrow \o RowWithout(right.cells[j], rk)>> ELSE <<>>)
         \o match_right(lrow, key, right, rk, j + 1)

\* Variant: every left row once, with its first match or with blanks
merge_rows_left_join(left, right, lk, rk, i) ==
    [r \in 1..Len(left.cells) |->
        LET m == match_right(left.cells[r], left.cells[r][lk], right, rk, 1)
        IN IF m = <<>>
           THEN left.cells[r] \o [c \in 1..(Len(right.columns) - 1) |-> NaN]
           ELSE m[1]]

\* The rows of pd.merge(left, right, on="datetime"), how="inner": for the left rows
\* from position i on
RECURSIVE merge_rows(_, _, _, _, _)
merge_rows(left, right, lk, rk, i) ==
    IF i > Len(left.cells) THEN <<>>
    ELSE match_right(left.cells[i], left.cells[i][lk], right, rk, 1)
             \o merge_rows(left, right, lk, rk, i + 1)

\* The labels of pd.merge's result: the left labels, then the right labels but the
\* key; a label other than the key that both sides carry gets the suffix _x or _y
merge_columns(left, right) ==
    [c \in 1..Len(left.columns) |->
        IF left.columns[c] # L_datetime /\ HasColumn(right, left.columns[c])
        THEN left.columns[c] \o SuffixX ELSE left.columns[c]]
    \o [c \in 1..(Len(right.columns) - 1) |->
        LET label == RowWithout(right.columns, ColIndex(right, L_datetime))[c]
        IN IF HasColumn(left, label) THEN label \o SuffixY ELSE label]

\* line 179: pd.merge(df_left, df_right, on="datetime")
merge(left, right) ==
    DataFrame(merge_columns(left, right),
              merge_rows(left, right, ColIndex(left, L_datetime),
                         ColIndex(right, L_datetime), 1))

\* Variant: no column is dropped
keep_all_columns(df) == df

\* line 180: df.loc[:, ~df.columns.str.startswith("Unnamed")]
drop_unnamed(df) ==
    LET keep == {c \in 1..Len(df.columns) : ~StartsWith(df.columns[c], P_Unnamed)}
        Pick(row) == LET F[c \in 0..Len(row)] ==
                             IF c = 0 THEN <<>>
                             ELSE IF c \in keep THEN Append(F[c - 1], row[c]) ELSE F[c - 1]
                     IN F[Len(row)]
    IN DataFrame(Pick(df.columns), [r \in 1..Len(df.cells) |-> Pick(df.cells[r])])

\* What becomes of df_merged.to_csv(out_path):
\*   "written": the file is written and is there at the exists() check;
\*   "gone":    to_csv returns but the path does not exist at the exists() check;
\*   "oserror": to_csv raises OSError (directory missing, no permission, disk full).
DiskOutcomes == {"written", "gone", "oserror"}

\* join_both(df_left, df_right, out_path); the frames passed in are changed in
\* place by lines 177-178, so the caller's frames are part of the outcome.
join_both(fsys, df_left, df_right, out_path, disk) ==
    IF ~HasColumn(df_left, L_datetime)
    THEN [fs |-> fsys, ret |-> Raise("KeyError"), left |-> df_left, right |-> df_right,
          merged |-> NoFrame, log |-> <<>>]
    ELSE LET left == SetColumn(df_left, L_datetime, astype_str(Column(df_left, L_datetime)))
         IN IF ~HasColumn(df_right, L_datetime)
            THEN [fs |-> fsys, ret |-> Raise("KeyError"), left |-> left,
                  right |-> df_right, merged |-> NoFrame, log |-> <<>>]
            ELSE LET right == SetColumn(df_right, L_datetime,
                                        astype_str(Column(df_right, L_datetime)))
                     df_merged == drop_unnamed(merge(left, right))
                 IN IF disk = "oserror"
                    THEN [fs |-> fsys, ret |-> Raise("OSError"), left |-> left,
                          right |-> right, merged |-> df_merged, log |-> <<>>]
                    ELSE IF disk = "written"
                    THEN [fs |-> [fsys EXCEPT ![out_path] = File(to_csv(df_merged))],
                          ret |-> Return(df_merged), left |-> left, right |-> right,
                          merged |-> df_merged, log |-> <<Info("Saved joined report")>>]
                    ELSE [fs |-> [fsys EXCEPT ![out_path] = NoFile],
                          ret |-> Return(df_merged), left |-> left, right |-> right,
                          merged |-> df_merged, log |-> <<>>]

----------------------------------------------------------------------------
(* The functions called on their own, as the tests call them *)

SeqsUpTo(S, n) == UNION {[1..k -> S] : k \in 0..n}

Text(t) == [fmt |-> "text", doc |-> t]
Garbage == [fmt |-> "garbage", doc |-> <<"<", "h", "t", "m", "l", ">">>]
Old == [fmt |-> "garbage", doc |-> <<"o", "l", "d">>]
Called(name, r) == [name |-> name, outcome |-> r.kind]

KeyAlphabet == {"k", "j", " ", "\n"}
KeyFiles == {NoFile} \cup {File(Text(t)) : t \in SeqsUpTo(KeyAlphabet, MaxKeyLen)}
KeyArgs == {None, Some(<<>>), Some(<<"a", "b">>)}

Statuses == {200, 204, 301, 404, 500}
FetchBodies == {EmptyBytes, Garbage}
Responses(bodies) ==
    {TransportError} \cup {Response(code, body) : code \in Statuses, body \in bodies}

BlankFs == [p \in Paths |-> NoFile]

Quiet == /\ jao_df = NoFrame /\ pse_df = NoFrame /\ merged = NoFrame
         /\ ret = NoCall /\ log = <<>> /\ sent = <<>> /\ calls = <<>>

InitFetch ==
    /\ pc \in {"load_api_key", "download_jao", "download_pse"}
    /\ api_key \in KeyArgs
    /\ \E key \in KeyFiles, jao \in {NoFile, File(Old)}, pse \in {NoFile, File(Old)} :
           fs = [BlankFs EXCEPT ![KeyPath] = key, ![JaoPath] = jao, ![PsePath] = pse]
    /\ Quiet

CallLoadApiKey ==
    /\ pc = "load_api_key"
    /\ ret' = load_api_key(fs[KeyPath])
    /\ calls' = Append(calls, Called("load_api_key", ret'))
    /\ pc' = "done"
    /\ UNCHANGED <<fs, api_key, jao_df, pse_df, merged, log, sent>>

CallDownloadJao ==
    /\ pc = "download_jao"
    /\ \E resp \in Responses(FetchBodies) :
           LET r == download_jao(fs, api_key, JaoPath, resp)
           IN /\ fs' = r.fs
              /\ ret' = r.ret
              /\ sent' = sent \o r.sent
              /\ log' = log \o r.log
              /\ calls' = Append(calls, Called("download_jao", r.ret))
    /\ pc' = "done"
    /\ UNCHANGED <<api_key, jao_df, pse_df, merged>>

CallDownloadPse ==
    /\ pc = "download_pse"
    /\ \E resp \in Responses(FetchBodies) :
           LET r == download_pse(fs, PsePath, resp)
           IN /\ fs' = r.fs
              /\ ret' = r.ret
              /\ sent' = sent \o r.sent
              /\ log' = log \o r.log
              /\ calls' = Append(calls, Called("download_pse", r.ret))
    /\ pc' = "done"
    /\ UNCHANGED <<api_key, jao_df, pse_df, merged>>

NextFetch == CallLoadApiKey \/ CallDownloadJao \/ CallDownloadPse

SpecFetch == InitFetch /\ [][NextFetch]_vars

\* The grid CSV as read: the Data column is text, the Godzina column integers
Date1 == <<"2", "0", "2", "2", "-", "0", "1", "-", "0", "1">>
Date2 == <<"2", "0", "2", "2", "-", "0", "1", "-", "0", "2">>
PseDates == <<Date1, Date2>>
PseHours == 0..25
\* The report lists its records in time order: tables are the sequences of
\* (date, hour) records that never step back (a record may repeat)
PseRecords == {<<d, h>> : d \in 1..Len(PseDates), h \in PseHours}
Chronological(t) ==
    \A r \in 1..(Len(t) - 1) :
        t[r][1] < t[r + 1][1] \/ (t[r][1] = t[r + 1][1] /\ t[r][2] <= t[r + 1][2])
PseFrames ==
    {DataFrame(<<L_Data, L_Godzina>>, [r \in 1..Len(t) |-> <<PseDates[t[r][1]], t[r][2]>>]) :
        t \in {u \in SeqsUpTo(PseRecords, MaxPseRows) : Chronological(u)}}
    \cup {DataFrame(<<L_Data>>, << <<Date1>> >>), DataFrame(<<L_Godzina>>, << <<1>> >>)}
Csv(df) == [fmt |-> "csv", doc |-> df]
PseFiles == {NoFile, File(EmptyBytes), File(Garbage)} \cup {File(Csv(df)) : df \in PseFrames}

\* The auction document as loaded: days with marketPeriodStart and results, results
\* with productHour and offeredCapacity (here the result's place in the document)
Start1 == <<"2", "0", "2", "2", "-", "0", "1", "-", "0", "1", "T", "0", "0", ":", "0", "0", ":", "0", "0">>
Start2 == <<"2", "0", "2", "2", "-", "0", "1", "-", "0", "2", "T", "0", "0", ":", "0", "0", ":", "0", "0">>
Start3 == <<"2", "0", "2", "2", "-", "0", "1", "-", "0", "3", "T", "0", "0", ":", "0", "0", ":", "0", "0">>
StartBad == <<"2", "0", "2", "2", "-", "1", "3", "-", "0", "1", "T", "0", "0", ":", "0", "0", ":", "0", "0">>
Hour01 == <<"0", "1", ":", "0", "0", "-", "0", "2", ":", "0", "0">>
Hour23 == <<"2", "3", ":", "0", "0", "-", "2", "4", ":", "0", "0">>
HourBad == <<"2", "4", ":", "0", "0", "-", "2", "5", ":", "0", "0">>
JaoStarts == <<Start1, Start2, Start3>>
JaoHours == {Hour01, Hour23}

Result(productHour, capacity) ==
    (L_productHour :> productHour) @@ (L_offeredCapacity :> capacity)
Day(i, start, hours) ==
    (L_marketPeriodStart :> start)
        @@ (L_results :> [j \in 1..Len(hours) |-> Result(hours[j], 10 * i + j)])
JaoDoc(shape) == [i \in 1..Len(shape) |-> Day(i, JaoStarts[shape[i][1]], shape[i][2])]

\* One day record per market day, in time order
GoodShapes ==
    {u \in SeqsUpTo((1..Len(JaoStarts)) \X SeqsUpTo(JaoHours, MaxResults), MaxDays) :
        \A i \in 1..(Len(u) - 1) : u[i][1] < u[i + 1][1]}
GoodDay == Day(1, Start1, <<Hour01>>)
BadDays ==
    { (L_results :> <<Result(Hour01, 21)>>),                          \* no marketPeriodStart
      (L_marketPeriodStart :> Start2),                                \* no results
      (L_marketPeriodStart :> Start2) @@ (L_results :> <<(L_offeredCapacity :> 21)>>),
      Day(2, Start2, <<HourBad>>),                                    \* hour 24
      Day(2, StartBad, <<Hour01>>) }                                  \* month 13
JaoDocs == {JaoDoc(shape) : shape \in GoodShapes}
               \cup {<<bad>> : bad \in BadDays} \cup {<<GoodDay, bad>> : bad \in BadDays}
Json(doc) == [fmt |-> "json", doc |-> doc]
JaoFiles == {NoFile, File(EmptyBytes), File(Garbage)} \cup {File(Json(doc)) : doc \in JaoDocs}

InitNormalize ==
    /\ \/ /\ pc = "process_jao_json"
          /\ \E jao \in JaoFiles : fs = [BlankFs EXCEPT ![JaoPath] = jao]
       \/ /\ pc = "process_pse_csv"
          /\ \E pse \in PseFiles : fs = [BlankFs EXCEPT ![PsePath] = pse]
    /\ api_key = None
    /\ Quiet

CallProcessJao ==
    /\ pc = "process_jao_json"
    /\ LET r == process_jao_json(fs, JaoPath)
       IN /\ fs' = r.fs
          /\ ret' = r.ret
          /\ jao_df' = IF r.ret.kind = "return" THEN r.ret.value ELSE jao_df
          /\ calls' = Append(calls, Called("process_jao_json", r.ret))
    /\ pc' = "done"
    /\ UNCHANGED <<api_key, pse_df, merged, log, sent>>

CallProcessPse ==
    /\ pc = "process_pse_csv"
    /\ LET r == process_pse_csv(fs, PsePath)
       IN /\ fs' = r.fs
          /\ ret' = r.ret
          /\ pse_df' = IF r.ret.kind = "return" THEN r.ret.value ELSE pse_df
          /\ calls' = Append(calls, Called("process_pse_csv", r.ret))
    /\ pc' = "done"
    /\ UNCHANGED <<api_key, jao_df, merged, log, sent>>

NextNormalize == CallProcessJao \/ CallProcessPse

SpecNormalize == InitNormalize /\ [][NextNormalize]_vars

\* The tables handed to join_both.  The key column holds parsed date-time values
\* (what the normalizers return) or text (what the test passes); the other cells
\* are numbers that tell every cell of the two tables apart.
L_data_left == <<"d", "a", "t", "a", "_", "l", "e", "f", "t">>
L_data_right == <<"d", "a", "t", "a", "_", "r", "i", "g", "h", "t">>
L_a == <<"a">>
L_b == <<"b">>
L_Unnamed0 == <<"U", "n", "n", "a", "m", "e", "d", ":", " ", "0">>

Midnight == Timestamp(2022, 1, 1, 0, 0, 0)
OneOClock == Timestamp(2022, 1, 1, 1, 0, 0)
MidnightHM == <<"2", "0", "2", "2", "-", "0", "1", "-", "0", "1", " ", "0", "0", ":", "0", "0">>
OneOClockHM == <<"2", "0", "2", "2", "-", "0", "1", "-", "0", "1", " ", "0", "1", ":", "0", "0">>
OneOClockHMS == <<"2", "0", "2", "2", "-", "0", "1", "-", "0", "1", " ", "0", "1", ":", "0", "0", ":", "0", "0">>

KeyColumns == SeqsUpTo({Midnight, OneOClock}, MaxRows)
                  \cup SeqsUpTo({MidnightHM, OneOClockHM, OneOClockHMS}, MaxRows)
FewKeyColumns == {<<OneOClockHM>>, <<OneOClockHM, OneOClockHM>>, <<MidnightHM, OneOClockHM>>}
ExtraColumns == {SelectSeq(<<L_a, L_b, L_Unnamed0>>, LAMBDA c : c \in S) :
                    S \in SUBSET {L_a, L_b, L_Unnamed0}}

LeftFrame(keys, extras) ==
    DataFrame(<<L_datetime, L_data_left>> \o extras,
              [i \in 1..Len(keys) |->
                  <<keys[i], 100 + i>> \o [c \in 1..Len(extras) |-> 100 + 10 * c + i]])
RightFrame(keys, extras) ==
    DataFrame(<<L_data_right>> \o extras \o <<L_datetime>>,
              [j \in 1..Len(keys) |->
                  <<200 + j>> \o [c \in 1..Len(extras) |-> 200 + 10 * c + j] \o <<keys[j]>>])

InitJoin ==
    /\ pc = "join_both"
    /\ \/ \E lk \in KeyColumns, rk \in KeyColumns :
              pse_df = LeftFrame(lk, <<>>) /\ jao_df = RightFrame(rk, <<>>)
       \/ \E lk \in FewKeyColumns, rk \in FewKeyColumns, lx \in ExtraColumns, rx \in ExtraColumns :
              pse_df = LeftFrame(lk, lx) /\ jao_df = RightFrame(rk, rx)
       \/ \E lk \in FewKeyColumns : pse_df = LeftFrame(lk, <<>>) /\ jao_df = NoFrame
    /\ fs = BlankFs /\ api_key = None
    /\ merged = NoFrame /\ ret = NoCall /\ log = <<>> /\ sent = <<>> /\ calls = <<>>

CallJoinBoth ==
    /\ pc = "join_both"
    /\ \E disk \in DiskOutcomes :
           LET r == join_both(fs, pse_df, jao_df, JoinedPath, disk)
           IN /\ fs' = r.fs
              /\ ret' = r.ret
              /\ pse_df' = r.left
              /\ jao_df' = r.right
              /\ merged' = r.merged
              /\ log' = log \o r.log
              /\ calls' = Append(calls, Called("join_both", r.ret))
    /\ pc' = "done"
    /\ UNCHANGED <<api_key, sent>>

NextJoin == CallJoinBoth

SpecJoin == InitJoin /\ [][NextJoin]_vars

----------------------------------------------------------------------------
(* main *)

\* The class each exception class derives from
ExcBase ==
    [e \in {"IndexError", "KeyError", "LookupError", "FileNotFoundError", "OSError",
            "ConnectionError", "RequestException", "JSONDecodeError", "EmptyDataError",
            "ValueError", "Exception"} |->
        CASE e \in {"IndexError", "KeyError"} -> "LookupError"
          [] e = "FileNotFoundError" -> "OSError"
          [] e = "ConnectionError" -> "RequestException"
          [] e = "RequestException" -> "OSError"
          [] e \in {"JSONDecodeError", "EmptyDataError"} -> "ValueError"
          [] OTHER -> "Exception"]

RECURSIVE IsInstance(_, _)
IsInstance(e, class) ==
    e = class \/ (e # "Exception" /\ IsInstance(ExcBase[e], class))

\* Variant: except Exception
IsCaught_any(e) == IsInstance(e, "Exception")

\* line 219: except (IndexError, FileNotFoundError, requests.exceptions.RequestException)
IsCaught(e) ==
    \E class \in {"IndexError", "FileNotFoundError", "RequestException"} : IsInstance(e, class)

\* lines 214-218: the calls of main, in the order it makes them
StageOrder == <<"download_jao", "process_jao_json", "download_pse", "process_pse_csv",
                "join_both">>
NextStage(stage) ==
    LET k == CHOOSE i \in 1..Len(StageOrder) : StageOrder[i] = stage
    IN IF k = Len(StageOrder) THEN "returned" ELSE StageOrder[k + 1]

\* Variant: the next call is made whatever the stage ended with
main_after_ignoring_failure(stage, r) == NextStage(stage)

\* Where main goes after a stage ended with r: on to the next call; into the
\* except clause and out (line 220) when r raises a caught class; out of main with
\* the exception when r raises any other class
main_after(stage, r) ==
    IF r.kind = "return" THEN NextStage(stage)
    ELSE IF IsCaught(r.exc) THEN "returned" ELSE "propagated"

\* line 220: logging.error(f"Error occurred: {e}")
main_log(r) == IF r.kind = "raise" /\ IsCaught(r.exc) THEN <<Error(r.exc)>> ELSE <<>>

MainKeyFiles == {NoFile, File(Text(<<>>)), File(Text(<<" ", "\n", "k">>)),
                 File(Text(<<"k", " ", "j">>))}
MainStatuses == {200, 404}
MainJaoBodies ==
    {EmptyBytes, Garbage, Json(<<>>),
     Json(JaoDoc(<< <<1, <<Hour01, Hour23>> >> >>)),
     Json(<<GoodDay, (L_marketPeriodStart :> Start2)
                         @@ (L_results :> <<(L_offeredCapacity :> 21)>>)>>),
     Json(<<Day(1, Start1, <<HourBad>>)>>)}
MainPseBodies ==
    {EmptyBytes, Garbage,
     Csv(DataFrame(<<L_Data, L_Godzina>>, << <<Date1, 1>>, <<Date1, 24>> >>)),
     Csv(DataFrame(<<L_Data>>, << <<Date1>> >>)),
     Csv(DataFrame(<<L_Data, L_Godzina>>, << <<Date1, 25>> >>))}
MainResponses(bodies) ==
    {TransportError} \cup {Response(code, body) : code \in MainStatuses, body \in bodies}

Init ==
    /\ pc = "download_jao"
    /\ api_key \in KeyArgs
    /\ \E key \in MainKeyFiles, old \in {NoFile, File(Old)} :
           fs = [BlankFs EXCEPT ![KeyPath] = key, ![JaoPath] = old, ![PsePath] = old]
    /\ Quiet

MainDownloadJao ==
    /\ pc = "download_jao"
    /\ \E resp \in MainResponses(MainJaoBodies) :
           LET r == download_jao(fs, api_key, JaoPath, resp)
           IN /\ fs' = r.fs
              /\ ret' = r.ret
              /\ sent' = sent \o r.sent
              /\ log' = log \o r.log \o main_log(r.ret)
              /\ calls' = Append(calls, Called("download_jao", r.ret))
              /\ pc' = main_after("download_jao", r.ret)
    /\ UNCHANGED <<api_key, jao_df, pse_df, merged>>

MainProcessJao ==
    /\ pc = "process_jao_json"
    /\ LET r == process_jao_json(fs, ret.value)
       IN /\ fs' = r.fs
          /\ ret' = r.ret
          /\ jao_df' = IF r.ret.kind = "return" THEN r.ret.value ELSE jao_df
          /\ log' = log \o main_log(r.ret)
          /\ calls' = Append(calls, Called("process_jao_json", r.ret))
          /\ pc' = main_after("process_jao_json", r.ret)
    /\ UNCHANGED <<api_key, pse_df, merged, sent>>

MainDownloadPse ==
    /\ pc = "download_pse"
    /\ \E resp \in MainResponses(MainPseBodies) :
           LET r == download_pse(fs, PsePath, resp)
           IN /\ fs' = r.fs
              /\ ret' = r.ret
              /\ sent' = sent \o r.sent
              /\ log' = log \o r.log \o main_log(r.ret)
              /\ calls' = Append(calls, Called("download_pse", r.ret))
              /\ pc' = main_after("download_pse", r.ret)
    /\ UNCHANGED <<api_key, jao_df, pse_df, merged>>

MainProcessPse ==
    /\ pc = "process_pse_csv"
    /\ LET r == process_pse_csv(fs, ret.value)
       IN /\ fs' = r.fs
          /\ ret' = r.ret
          /\ pse_df' = IF r.ret.kind = "return" THEN r.ret.value ELSE pse_df
          /\ log' = log \o main_log(r.ret)
          /\ calls' = Append(calls, Called("process_pse_csv", r.ret))
          /\ pc' = main_after("process_pse_csv", r.ret)
    /\ UNCHANGED <<api_key, jao_df, merged, sent>>

MainJoinBoth ==
    /\ pc = "join_both"
    /\ \E disk \in DiskOutcomes :
           LET r == join_both(fs, pse_df, jao_df, JoinedPath, disk)
           IN /\ fs' = r.fs
              /\ ret' = r.ret
              /\ pse_df' = r.left
              /\ jao_df' = r.right
              /\ merged' = r.merged
              /\ log' = log \o r.log \o main_log(r.ret)
              /\ calls' = Append(calls, Called("join_both", r.ret))
              /\ pc' = main_after("join_both", r.ret)
    /\ UNCHANGED <<api_key, sent>>

Next == \/ MainDownloadJao
        \/ MainProcessJao
        \/ MainDownloadPse
        \/ MainProcessPse
        \/ MainJoinBoth

Spec == Init /\ [][Next]_vars

----------------------------------------------------------------------------
(* Claims about the credential loader and the fetchers, under SpecFetch *)

Did(name) == pc = "done" /\ Len(calls) = 1 /\ calls[1].name = name

\* The first line of text t ends at its first "\n", or at its end
FirstLineEnd(t) ==
    IF \E i \in 1..Len(t) : t[i] = "\n"
    THEN SetMin({i \in 1..Len(t) : t[i] = "\n"}) ELSE Len(t)

\* What the loader owes for a file, stated on positions of the text: the token
\* starts at the first non-blank character of line 1 and stops before the next
\* blank one
ExpectedKey(file) ==
    IF ~file.exists THEN Raise("FileNotFoundError")
    ELSE LET t == file.data.doc
             e == FirstLineEnd(t)
             starts == {i \in 1..e : ~IsSpace(t[i])}
         IN IF starts = {} THEN Raise("IndexError")
            ELSE LET s == SetMin(starts)
                     stop == SetMin({j \in s..e : j = e \/ IsSpace(t[j + 1])})
                 IN Return(SubSeq(t, s, stop))

\* C10: load_api_key returns exactly the first whitespace-delimited token of the
\* first line; an empty file or a first line without a token raises IndexError; a
\* missing file raises FileNotFoundError.  download_jao consults the file only when
\* it is given no credential: a given credential is sent as it is, whatever the
\* file holds, and otherwise the file's token is sent or the loader's error raised
\* before any request is made.
C10_LoadApiKey ==
    /\ Did("load_api_key") => ret = ExpectedKey(fs[KeyPath])
    /\ Did("download_jao") =>
           IF Truthy(api_key)
           THEN Len(sent) = 1 /\ sent[1].auth = Some(api_key.s)
           ELSE IF ExpectedKey(fs[KeyPath]).kind = "raise"
                THEN ret = ExpectedKey(fs[KeyPath]) /\ sent = <<>>
                ELSE Len(sent) = 1 /\ sent[1].auth = Some(ExpectedKey(fs[KeyPath]).value)

\* A file 'k j' on one line: the first of two tokens is returned
C10_Witness ==
    /\ Did("load_api_key")
    /\ fs[KeyPath] = File(Text(<<"k", " ", "j">>))
    /\ ret = Return(<<"k">>)

\* C7: a response whose status is not 2xx makes the fetch raise a failure carrying
\* that status; whenever a fetch raises, the target file holds none of the
\* response's bytes (it is empty if the request was made, untouched if not); the
\* body is in the file only after a fetch that returned, and then the file is the
\* body as received and the call returns the file's path.
C7_FetchFailureLeavesNoBody ==
    \A name \in {"download_jao", "download_pse"} :
        Did(name) =>
            LET path == IF name = "download_jao" THEN JaoPath ELSE PsePath
            IN /\ (sent # <<>> /\ sent[1].resp.kind = "response"
                      /\ sent[1].resp.status_code \notin 200..299)
                       => ret = RaiseStatus(sent[1].resp.status_code)
               /\ (ret.kind = "raise" /\ sent # <<>>) => fs[path] = File(EmptyBytes)
               /\ (ret.kind = "raise" /\ sent = <<>>) => fs[path] \in {NoFile, File(Old)}
               /\ ret.kind = "return" =>
                      /\ Len(sent) = 1 /\ sent[1].resp.kind = "response"
                      /\ fs[path] = File(sent[1].resp.content)
                      /\ ret.value = path

\* A 404 with a body, over a file of an earlier run
C7_Witness ==
    /\ Did("download_pse")
    /\ sent[1].resp = Response(404, Garbage)
    /\ ret = RaiseStatus(404)
    /\ fs[PsePath] = File(EmptyBytes)

----------------------------------------------------------------------------
(* Claims about the normalizers, under SpecNormalize *)

\* The grid table that was read, when it has both columns and hours 1..24 only
PseInput == fs[PsePath].data.doc
PseWellFormed ==
    /\ fs[PsePath].exists /\ fs[PsePath].data.fmt = "csv"
    /\ PseInput.columns = <<L_Data, L_Godzina>>
    /\ \A r \in 1..Len(PseInput.cells) : PseInput.cells[r][2] \in 1..24

\* The date-time of date text 'YYYY-MM-DD' at hour h, minute 0
AtHour(date, h) ==
    Timestamp(StrToInt(SubSeq(date, 1, 4)), StrToInt(SubSeq(date, 6, 7)),
              StrToInt(SubSeq(date, 9, 10)), h, 0, 0)

\* C3: for every grid row with date D and hour h in 1..23 the datetime is D at
\* hh:00, and for h = 24 it is D at 00:00 of the same date D; the output has one
\* row per input row, each with its Data and Godzina cells as read; rows with
\* distinct (date, hour) get distinct datetime values.
C3_PseDatetime ==
    (Did("process_pse_csv") /\ PseWellFormed) =>
        /\ ret = Return(pse_df)
        /\ pse_df.columns = <<L_Data, L_Godzina, L_datetime>>
        /\ Len(pse_df.cells) = Len(PseInput.cells)
        /\ \A r \in 1..Len(PseInput.cells) :
               LET date == PseInput.cells[r][1]
                   h == PseInput.cells[r][2]
               IN pse_df.cells[r] = <<date, h, AtHour(date, IF h = 24 THEN 0 ELSE h)>>
        /\ \A r1, r2 \in 1..Len(PseInput.cells) :
               PseInput.cells[r1] # PseInput.cells[r2]
                   => pse_df.cells[r1][3] # pse_df.cells[r2][3]

\* Hour 1 of 2022-01-01, then hour 24 of it, which becomes 2022-01-01 00:00
C3_Witness ==
    /\ Did("process_pse_csv") /\ PseWellFormed
    /\ PseInput.cells = << <<Date1, 1>>, <<Date1, 24>> >>
    /\ ret.kind = "return"
    /\ ret.value.cells[1][3] = Timestamp(2022, 1, 1, 1, 0, 0)
    /\ ret.value.cells[2][3] = Timestamp(2022, 1, 1, 0, 0, 0)

\* The auction document that was read, when every day has both fields and every
\* result a productHour, all of them parseable
JaoInput == fs[JaoPath].data.doc
JaoWellFormed ==
    /\ fs[JaoPath].exists /\ fs[JaoPath].data.fmt = "json"
    /\ \A i \in 1..Len(JaoInput) :
           /\ DOMAIN JaoInput[i] = {L_marketPeriodStart, L_results}
           /\ JaoInput[i][L_marketPeriodStart] \in {Start1, Start2, Start3}
           /\ \A j \in 1..Len(JaoInput[i][L_results]) :
                  /\ DOMAIN JaoInput[i][L_results][j] = {L_productHour, L_offeredCapacity}
                  /\ JaoInput[i][L_results][j][L_productHour] \in JaoHours

\* The number of results in the days before day i
RECURSIVE ResultsBefore(_, _)
ResultsBefore(doc, i) ==
    IF i <= 1 THEN 0 ELSE ResultsBefore(doc, i - 1) + Len(doc[i - 1][L_results])

\* C4: one output row per result record, in document order, so that the row count
\* is the sum of the lengths of the days' results; each row keeps the result's
\* fields as they were and adds datetime = the first 10 characters of the day's
\* marketPeriodStart with the first 5 of the result's productHour, parsed.
C4_JaoRows ==
    (Did("process_jao_json") /\ JaoWellFormed) =>
        /\ ret = Return(jao_df)
        /\ Len(jao_df.cells) = ResultsBefore(JaoInput, Len(JaoInput) + 1)
        /\ \A i \in 1..Len(JaoInput) : \A j \in 1..Len(JaoInput[i][L_results]) :
               LET row == jao_df.cells[ResultsBefore(JaoInput, i) + j]
                   result == JaoInput[i][L_results][j]
                   start == JaoInput[i][L_marketPeriodStart]
               IN /\ jao_df.columns = <<L_productHour, L_offeredCapacity, L_datetime>>
                  /\ row[1] = result[L_productHour]
                  /\ row[2] = result[L_offeredCapacity]
                  /\ row[3] = Timestamp(StrToInt(SubSeq(start, 1, 4)),
                                        StrToInt(SubSeq(start, 6, 7)),
                                        StrToInt(SubSeq(start, 9, 10)),
                                        StrToInt(SubSeq(result[L_productHour], 1, 2)),
                                        StrToInt(SubSeq(result[L_productHour], 4, 5)), 0)

\* Two days, the first with two results: three rows, the third from the second day
C4_Witness ==
    /\ Did("process_jao_json") /\ JaoWellFormed
    /\ JaoInput = JaoDoc(<< <<1, <<Hour01, Hour23>> >>, <<2, <<Hour01>> >> >>)
    /\ ret.kind = "return"
    /\ ret.value.cells = << <<Hour01, 11, Timestamp(2022, 1, 1, 1, 0, 0)>>,
                            <<Hour23, 12, Timestamp(2022, 1, 1, 23, 0, 0)>>,
                            <<Hour01, 21, Timestamp(2022, 1, 2, 1, 0, 0)>> >>

----------------------------------------------------------------------------
(* Claims about join_both, under SpecJoin.  After the call pse_df and jao_df  *)
(* are the two inputs with their key columns coerced in place.               *)

Joined == /\ Did("join_both") /\ ret.kind = "return"
          /\ HasColumn(pse_df, L_datetime) /\ HasColumn(jao_df, L_datetime)

LeftKey(i) == Column(pse_df, L_datetime)[i]
RightKey(j) == Column(jao_df, L_datetime)[j]
LeftRows == 1..Len(pse_df.cells)
RightRows == 1..Len(jao_df.cells)
OutRows(df) == 1..Len(df.cells)
\* The pairs of a left row and a right row with the same coerced key
KeyPairs == {<<i, j>> \in LeftRows \X RightRows : LeftKey(i) = RightKey(j)}
\* The left row and the right row an output row was made of, told by the
\* data_left and data_right cells it carries
LeftOf(df, p) == CHOOSE i \in LeftRows :
    Column(pse_df, L_data_left)[i] = Column(df, L_data_left)[p]
RightOf(df, p) == CHOOSE j \in RightRows :
    Column(jao_df, L_data_right)[j] = Column(df, L_data_right)[p]

\* C1: inner join on the coerced key: the returned table has one row for each pair
\* (l, r) of a left and a right row with equal keys, carrying that key and both
\* rows' fields, and no other row; so a key that occurs m times on the left and n
\* times on the right gives m*n rows, and a key of one side only gives none.
C1_InnerJoin ==
    Joined =>
        LET out == ret.value
        IN /\ Len(out.cells) = Cardinality(KeyPairs)
           /\ \A p \in OutRows(out) :
                  /\ \E i \in LeftRows :
                         Column(pse_df, L_data_left)[i] = Column(out, L_data_left)[p]
                  /\ \E j \in RightRows :
                         Column(jao_df, L_data_right)[j] = Column(out, L_data_right)[p]
                  /\ <<LeftOf(out, p), RightOf(out, p)>> \in KeyPairs
                  /\ Column(out, L_datetime)[p] = LeftKey(LeftOf(out, p))
           /\ \A pair \in KeyPairs :
                  Cardinality({p \in OutRows(out) :
                                  <<LeftOf(out, p), RightOf(out, p)>> = pair}) = 1
           /\ \A k \in {LeftKey(i) : i \in LeftRows} \cup {RightKey(j) : j \in RightRows} :
                  Cardinality({p \in OutRows(out) : Column(out, L_datetime)[p] = k})
                      = Cardinality({i \in LeftRows : LeftKey(i) = k})
                            * Cardinality({j \in RightRows : RightKey(j) = k})

\* A key twice on the left and twice on the right, and a key of the left only:
\* four rows
C1_Witness ==
    /\ Joined
    /\ Column(pse_df, L_datetime) = <<OneOClockHM, OneOClockHM>>
    /\ Column(jao_df, L_datetime) = <<OneOClockHM, OneOClockHM>>
    /\ Len(ret.value.cells) = 4

\* The non-key labels of a table that are not placeholders
Kept(df) == {df.columns[c] : c \in 1..Len(df.columns)}
                \ ({L_datetime} \cup {l \in {df.columns[c] : c \in 1..Len(df.columns)} :
                                         StartsWith(l, P_Unnamed)})

\* C9: the returned table has exactly one datetime column and no column whose label
\* starts with 'Unnamed'; every other column of either input is in it with its data,
\* under its own label, or, when both inputs carry the label, under the label with
\* _x (left) and with _y (right); it has no further column.
C9_Columns ==
    Joined =>
        LET out == ret.value
            both == Kept(pse_df) \cap Kept(jao_df)
            LeftLabel(l) == IF l \in both THEN l \o SuffixX ELSE l
            RightLabel(l) == IF l \in both THEN l \o SuffixY ELSE l
        IN /\ Cardinality({c \in 1..Len(out.columns) : out.columns[c] = L_datetime}) = 1
           /\ \A c \in 1..Len(out.columns) : ~StartsWith(out.columns[c], P_Unnamed)
           /\ \A l \in Kept(pse_df) :
                  /\ HasColumn(out, LeftLabel(l))
                  /\ \A p \in OutRows(out) :
                         Column(out, LeftLabel(l))[p] = Column(pse_df, l)[LeftOf(out, p)]
           /\ \A l \in Kept(jao_df) :
                  /\ HasColumn(out, RightLabel(l))
                  /\ \A p \in OutRows(out) :
                         Column(out, RightLabel(l))[p] = Column(jao_df, l)[RightOf(out, p)]
           /\ Len(out.columns) = 1 + Cardinality(Kept(pse_df)) + Cardinality(Kept(jao_df))
           /\ \A c1, c2 \in 1..Len(out.columns) :
                  out.columns[c1] = out.columns[c2] => c1 = c2

\* Both inputs carry a, the left one a placeholder too: a_x and a_y are kept
C9_Witness ==
    /\ Joined
    /\ pse_df.columns = <<L_datetime, L_data_left, L_a, L_Unnamed0>>
    /\ jao_df.columns = <<L_data_right, L_a, L_datetime>>
    /\ ret.value.columns = <<L_datetime, L_data_left, L_a \o SuffixX, L_data_right,
                             L_a \o SuffixY>>
    /\ Len(ret.value.cells) = 2

\* The date-time a key cell stands for, whatever it is held as
Denotes(cell) ==
    IF IsTimestamp(cell) THEN cell
    ELSE LET t == ParseDateTime(SubSeq(cell, 1, 16)).value
         IN IF Len(cell) = 16 THEN t
            ELSE Timestamp(t[2], t[3], t[4], t[5], t[6], StrToInt(SubSeq(cell, 18, 19)))

\* C2: whenever a left row and a right row stand for the same timestamp, be it held
\* as a parsed value, as 'YYYY-MM-DD HH:MM' or as 'YYYY-MM-DD HH:MM:SS', join_both
\* gives them equal keys and joins them.
C2_SameTimestampJoins ==
    [][(pc = "join_both" /\ HasColumn(pse_df, L_datetime) /\ HasColumn(jao_df, L_datetime)
            /\ ret'.kind = "return")
        => \A i \in 1..Len(pse_df.cells), j \in 1..Len(jao_df.cells) :
               Denotes(Column(pse_df, L_datetime)[i]) = Denotes(Column(jao_df, L_datetime)[j])
                   => /\ Column(pse_df', L_datetime)[i] = Column(jao_df', L_datetime)[j]
                      /\ \E p \in 1..Len(merged'.cells) :
                             /\ Column(merged', L_data_left)[p] = Column(pse_df, L_data_left)[i]
                             /\ Column(merged', L_data_right)[p]
                                    = Column(jao_df, L_data_right)[j]]_vars

\* C8: join_both returns the merged table whatever becomes of writing it.
C8_ReturnsRegardless ==
    (Did("join_both") /\ HasColumn(pse_df, L_datetime) /\ HasColumn(jao_df, L_datetime))
        => ret = Return(merged)

----------------------------------------------------------------------------
(* Claims about main, under Spec *)

Stages == {StageOrder[k] : k \in 1..Len(StageOrder)}
Ended == pc \in {"returned", "propagated"}
ErrorLines == {n \in 1..Len(log) : log[n].level = "ERROR"}
LastCall == calls[Len(calls)]
LastRequest == sent[Len(sent)]

\* C5: main starts its stages in the order fetch auction, normalize auction, fetch
\* grid, normalize grid, join; a stage starts only when every stage before it has
\* returned, and once a stage has raised none is started any more.  So the join
\* starts only when both normalizers have returned their table, and a normalizer
\* starts only on the file its fetch has filled from a response with status 200.
C5_StageOrder ==
    /\ Len(calls) <= Len(StageOrder)
    /\ \A k \in 1..Len(calls) : calls[k].name = StageOrder[k]
    /\ \A k \in 1..(Len(calls) - 1) : calls[k].outcome = "return"
    /\ (calls # <<>> /\ LastCall.outcome = "raise") => Ended
    /\ pc \in Stages => pc = StageOrder[Len(calls) + 1]
    /\ pc = "join_both" =>
           /\ calls[2] = [name |-> "process_jao_json", outcome |-> "return"]
           /\ calls[4] = [name |-> "process_pse_csv", outcome |-> "return"]
           /\ ret = Return(pse_df)
    /\ pc = "process_jao_json" =>
           /\ LastRequest.url = JaoUrl /\ LastRequest.resp.kind = "response"
           /\ LastRequest.resp.status_code = 200
           /\ ret = Return(JaoPath) /\ fs[JaoPath] = File(LastRequest.resp.content)
    /\ pc = "process_pse_csv" =>
           /\ LastRequest.url = PseUrl /\ LastRequest.resp.kind = "response"
           /\ LastRequest.resp.status_code = 200
           /\ ret = Return(PsePath) /\ fs[PsePath] = File(LastRequest.resp.content)

\* The grid fetch answers 404 after the auction stages went through: main has
\* ended, and neither the grid normalizer nor the join was started
C5_Witness ==
    /\ Ended
    /\ Len(calls) = 3
    /\ calls[3] = [name |-> "download_pse", outcome |-> "raise"]
    /\ ret = RaiseStatus(404)
    /\ pse_df = NoFrame /\ merged = NoFrame

\* C6: a missing credential file (FileNotFoundError), an empty or tokenless one
\* (IndexError) and a transport or status failure of a fetch (RequestException) end
\* main with one logged error line and a normal return; any other failure, among
\* them a missing field (KeyError) or an unparseable value or document (ValueError)
\* in a normalizer, is not caught: it leaves main, and no error line is logged.
C6_CaughtKinds ==
    /\ (calls # <<>> /\ LastCall.outcome = "raise") =>
           /\ ret.kind = "raise"
           /\ ret.exc \in {"IndexError", "FileNotFoundError", "RequestException",
                           "ConnectionError", "KeyError", "ValueError",
                           "JSONDecodeError", "EmptyDataError", "OSError"}
           /\ ret.exc \in {"IndexError", "FileNotFoundError", "RequestException",
                           "ConnectionError"}
                  => /\ pc = "returned"
                     /\ ErrorLines = {Len(log)}
                     /\ log[Len(log)].msg = ret.exc
           /\ ret.exc \in {"KeyError", "ValueError", "JSONDecodeError", "EmptyDataError",
                           "OSError"}
                  => pc = "propagated" /\ ErrorLines = {}
    /\ (calls = <<>> \/ LastCall.outcome = "return") =>
           pc # "propagated" /\ ErrorLines = {}

\* A result record without productHour: KeyError leaves main from the auction
\* normalizer
C6_Witness ==
    /\ pc = "propagated"
    /\ LastCall = [name |-> "process_jao_json", outcome |-> "raise"]
    /\ ret = Raise("KeyError")
    /\ ErrorLines = {}

====
